---------------------------- MODULE Spec2Model ----------------------------
(***************************************************************************)
(* Sound3D: the AudioStreamer variants (src/AudioStreamer.cpp) and the     *)
(* double-buffered streaming engine SoundBuffer / SoundStream /            *)
(* SoundObject (src/Sound3D.cpp, the XAudio2 implementation).              *)
(*                                                                         *)
(* Byte positions are plain integers.  A PCM buffer (XABuffer) is a heap   *)
(* cell named by an id; id 0 is nullptr.  A source voice is a queue of     *)
(* buffer ids plus a running flag.  A call that dereferences a null        *)
(* pointer ends the process: the model gives such a call no successor.     *)
(***************************************************************************)
EXTENDS Integers, Sequences, FiniteSets, TLC

VARIABLES
    disk,       \* the audio file the paths given to Load name
    heap,       \* the XABuffers: id -> [st, bytes, off, eos, ctx]
    xaBuffer,   \* asset -> id of its resident buffer (0: not loaded)
    refCount,   \* asset -> SoundBuffer::refCount
    alStream,   \* SoundStream::alStream (the shared AudioStreamer)
    alSources,  \* SoundStream::alSources, a sequence of SO_ENTRY
    Sound,      \* object -> SoundObject::Sound ("null", "A", "S")
    Source,     \* object -> its IXAudio2SourceVoice, or NoVoice
    State,      \* object -> its SoundObjectState, or NoState
    bound,      \* history: objects with a BindSource on A not yet unbound
    last,       \* history: the last call made and what it returned
    fg,         \* foreground thread inside SoundStream::Seek (SpecConc)
    cb,         \* audio thread inside OnBufferEnd -> StreamNext (SpecConc)
    rd          \* history: the streamer calls made since OpenStream (SpecStrm)

vars == <<disk, heap, xaBuffer, refCount, alStream, alSources,
          Sound, Source, State, bound, last, fg, cb, rd>>

----------------------------------------------------------------------------
(* Bounds of the model *)

\* most buffers a voice holds queued when one more is submitted by a refill
MaxQueue == 3

\* lowest refCount from which a further unbind is still explored
MaxNeg == 1

\* sample positions 0..MaxSample are passed to SoundStream::Seek
MaxSample == 4

\* heap cells available to malloc
NBuf == 4

\* bits of an int / unsigned int (32 in the program)
IntBits == 5

\* ReadSome is called with dstSize in 0..MaxRead
MaxRead == 4

\* the paths given to CreateAudioStreamer have up to MaxExt characters after
\* their last '.'
MaxExt == 4

----------------------------------------------------------------------------
(* Small helpers *)

Min(a, b) == IF a < b THEN a ELSE b

Max(a, b) == IF a > b THEN a ELSE b

\* a % b as C computes it for b > 0: the remainder has the sign of a
CMod(a, b) == IF a >= 0 THEN a % b ELSE -((-a) % b)

\* int and unsigned int, scaled to IntBits bits; 2^IntBits values
UIntMod == 2 ^ IntBits

\* int(u): the unsigned value u read as a two's complement int
ToInt(u) == IF u >= UIntMod \div 2 THEN u - UIntMod ELSE u

\* (unsigned int) i: the int i passed where an unsigned int is expected
ToUInt(i) == i % UIntMod

\* the values of an int
IntRange == -(UIntMod \div 2) .. (UIntMod \div 2 - 1)

----------------------------------------------------------------------------
(* The files on disk.  size: the PCM byte length the header declares;      *)
(* phys: the PCM bytes the file really holds; block: bytes of one sample   *)
(* block; rate: sample blocks per second; skip: the PCM bytes of a WAV     *)
(* file that lie before file offset sizeof(WAVHEADER), none in a file      *)
(* whose data chunk header is the struct's NextChunk2.                     *)

File(k, sz, ph) ==
    [kind |-> k, size |-> sz, phys |-> ph, block |-> 2, rate |-> 1, skip |-> 0]

Files ==
    { File("WAV", 8, 8), File("MP3", 8, 8), File("OGG", 8, 8),
      File("WAV", 7, 7), File("WAV", 3, 3), File("WAV", 2, 2),
      File("WAV", 0, 0), File("WAV", 8, 4) }

\* the files of the runs that mix the static buffer and the stream
MixFiles == { File("WAV", 3, 3), File("WAV", 2, 2) }

----------------------------------------------------------------------------
(* AudioStreamer (the WAV streamer is the base class), MP3Streamer,        *)
(* OGGStreamer.  dec is where the file pointer / decoder stands, as a PCM  *)
(* byte offset.                                                            *)

NoStream ==
    [kind |-> "none", open |-> FALSE, StreamSize |-> 0, StreamPos |-> 0,
     SampleRate |-> 0, SampleBlockSize |-> 0, dec |-> 0, phys |-> 0,
     skip |-> 0]

\* OpenStream on a closed streamer and a valid file: the WAV streamer has
\* read sizeof(WAVHEADER) bytes and the file pointer stays behind them
OpenStream(f) ==
    [kind |-> f.kind, open |-> TRUE, StreamSize |-> f.size, StreamPos |-> 0,
     SampleRate |-> f.rate, SampleBlockSize |-> f.block, dec |-> f.skip,
     phys |-> f.phys, skip |-> f.skip]

\* the file handle is set and nothing else: OpenStream has returned false
\* after it assigned FileHandle
HandleOnly(s) == [s EXCEPT !.open = TRUE]

\* OpenStream(file) of the streamer class f.kind on a streamer s; path tells
\* what the path names: "valid" the file f, "missing" no file, "invalid" a
\* file whose header the class or its decoder rejects
WAVOpenStream(s, f, path) ==
    IF s.open THEN [s |-> s, ret |-> FALSE]
    ELSE CASE path = "missing" -> [s |-> s, ret |-> FALSE]
           [] path = "invalid" -> [s |-> HandleOnly(s), ret |-> FALSE]
           [] OTHER -> [s |-> OpenStream(f), ret |-> TRUE]

\* FileHandle = mpg_new() comes before the file is opened
MP3OpenStream(s, f, path) ==
    IF s.open THEN [s |-> s, ret |-> FALSE]
    ELSE IF path = "valid" THEN [s |-> OpenStream(f), ret |-> TRUE]
         ELSE [s |-> HandleOnly(s), ret |-> FALSE]

\* a rejected file ends in CloseStream()
OGGOpenStream(s, f, path) ==
    IF s.open THEN [s |-> s, ret |-> FALSE]
    ELSE IF path = "valid" THEN [s |-> OpenStream(f), ret |-> TRUE]
         ELSE [s |-> s, ret |-> FALSE]

\* OpenStream without the test of FileHandle
StrmOpenStream_Reopens(s, f, path) ==
    IF path = "valid" THEN [s |-> OpenStream(f), ret |-> TRUE]
    ELSE [s |-> s, ret |-> FALSE]

StrmOpenStream(s, f, path) ==
    CASE f.kind = "MP3" -> MP3OpenStream(s, f, path)
      [] f.kind = "OGG" -> OGGOpenStream(s, f, path)
      [] OTHER -> WAVOpenStream(s, f, path)

\* CloseStream that keeps the format fields
CloseStream_KeepsFormat(s) ==
    [s EXCEPT !.open = FALSE, !.StreamSize = 0, !.StreamPos = 0]

\* CloseStream: nothing to do without a file handle
CloseStream(s) == IF s.open THEN NoStream ELSE s

StrmIsEOS(s) == s.StreamPos = s.StreamSize

Available(s) == s.StreamSize - s.StreamPos

BytesPerSecond(s) == s.SampleRate * s.SampleBlockSize

\* bytes the file / decoder can still deliver from dec when asked for n
Deliver(s, n) == Max(0, Min(n, s.phys - s.dec))

\* the values int count = StreamSize - StreamPos can take: a difference
\* outside the range of int is a signed overflow, after which count may hold
\* any int
CountValues(s) ==
    IF Available(s) \in IntRange THEN {Available(s)} ELSE IntRange

\* count taken from dstSize alone
ReadCount_IgnoresAvailable(s, avail, dstSize) ==
    dstSize - CMod(dstSize, s.SampleBlockSize)

\* count of AudioStreamer::ReadSome before the read, avail being the value
\* count was initialised with
ReadCount(s, avail, dstSize) ==
    LET c == Min(avail, dstSize)
    IN  c - CMod(c, s.SampleBlockSize)

WAVReadSome(s, avail, dstSize) ==
    IF ~s.open \/ avail = 0 THEN [s |-> s, ret |-> 0]
    ELSE LET count == ReadCount(s, avail, dstSize)
             got == Deliver(s, count)
         IN  IF got <= 0
             THEN [s |-> [s EXCEPT !.StreamPos = s.StreamSize], ret |-> 0]
             ELSE [s |-> [s EXCEPT !.StreamPos = @ + count, !.dec = @ + got],
                   ret |-> count]

MP3ReadSome(s, avail, dstSize) ==
    IF ~s.open \/ avail = 0 THEN [s |-> s, ret |-> 0]
    ELSE LET bytesRead == Deliver(s, ReadCount(s, avail, dstSize))
         IN  [s |-> [s EXCEPT !.StreamPos = @ + bytesRead, !.dec = @ + bytesRead],
              ret |-> bytesRead]

\* the do-while loop ends with bytesTotal = count or at the decoder's EOF
OGGReadSome(s, avail, dstSize) ==
    IF ~s.open \/ avail = 0 THEN [s |-> s, ret |-> 0]
    ELSE LET bytesTotal == Deliver(s, ReadCount(s, avail, dstSize))
         IN  [s |-> [s EXCEPT !.StreamPos = @ + bytesTotal, !.dec = @ + bytesTotal],
              ret |-> bytesTotal]

\* count initialised to dstSize whatever is left of the stream
ReadSomeFrom_NoEndTest(s, avail, dstSize) ==
    CASE s.kind = "MP3" -> MP3ReadSome(s, dstSize, dstSize)
      [] s.kind = "OGG" -> OGGReadSome(s, dstSize, dstSize)
      [] OTHER -> WAVReadSome(s, dstSize, dstSize)

\* ReadSome with count initialised to avail
ReadSomeFrom(s, avail, dstSize) ==
    CASE s.kind = "MP3" -> MP3ReadSome(s, avail, dstSize)
      [] s.kind = "OGG" -> OGGReadSome(s, avail, dstSize)
      [] OTHER -> WAVReadSome(s, avail, dstSize)

\* ReadSome where StreamSize - StreamPos is in the range of int
ReadSome(s, dstSize) == ReadSomeFrom(s, Available(s), dstSize)

\* streampos after the out-of-bounds test of Seek: if (int(streampos) >=
\* StreamSize) streampos = 0
SeekClamp(s, streampos) ==
    IF ToInt(streampos) >= s.StreamSize THEN 0 ELSE streampos

\* StreamPos (an int) takes the unsigned streampos; the file pointer goes to
\* streampos + sizeof(WAVHEADER)
WAVSeek(s, streampos) ==
    LET p == SeekClamp(s, streampos)
        q == p - CMod(p, s.SampleBlockSize)
    IN  [s |-> [s EXCEPT !.StreamPos = ToInt(q), !.dec = q + s.skip], ret |-> q]

\* mpg_seek works by sample blocks; StreamPos is not assigned
MP3Seek(s, streampos) ==
    LET p == SeekClamp(s, streampos)
    IN  [s |-> [s EXCEPT !.dec = (p \div s.SampleBlockSize) * s.SampleBlockSize],
         ret |-> p]

OGGSeek(s, streampos) ==
    LET p == SeekClamp(s, streampos)
    IN  [s |-> [s EXCEPT !.StreamPos = ToInt(p),
                         !.dec = (p \div s.SampleBlockSize) * s.SampleBlockSize],
         ret |-> p]

StrmSeek(s, streampos) ==
    CASE s.kind = "MP3" -> MP3Seek(s, streampos)
      [] s.kind = "OGG" -> OGGSeek(s, streampos)
      [] OTHER -> WAVSeek(s, streampos)

----------------------------------------------------------------------------
(* The heap of XABuffers and the world the engine's functions act on.      *)

Assets == {"A", "S"}

Objects == {1, 2}

FreeCell == [st |-> "free", bytes |-> 0, off |-> 0, eos |-> FALSE, ctx |-> "none"]

\* no voice (a null Source); a voice is ok, may run, holds the queue q of
\* submitted XAUDIO2_BUFFER copies and may owe an OnStreamEnd callback
NoVoice == [ok |-> FALSE, run |-> FALSE, q |-> << >>, end |-> FALSE]

\* the buffer ids in a voice queue
QIds(q) == {q[k].id : k \in DOMAIN q}

NoState ==
    [ok |-> FALSE, isInitial |-> FALSE, isPlaying |-> FALSE,
     isLoopable |-> FALSE, isPaused |-> FALSE]

\* SO_ENTRY as alSources.emplace_back(so) constructs it
NewEntry(o) ==
    [obj |-> o, base |-> 0, next |-> 0, front |-> 0, back |-> 0, busy |-> FALSE]

\* the program state a call starts from; oom: malloc fails during the call
World(oom) ==
    [oom |-> oom, heap |-> heap, xaBuffer |-> xaBuffer, refCount |-> refCount,
     alStream |-> alStream, alSources |-> alSources, Sound |-> Sound,
     Source |-> Source, State |-> State, bound |-> bound, crash |-> FALSE]

\* the buffer ids some pointer of the program or some voice queue holds
Refs(w) ==
    ({w.xaBuffer[a] : a \in Assets}
       \cup {w.alSources[i].front : i \in DOMAIN w.alSources}
       \cup {w.alSources[i].back : i \in DOMAIN w.alSources}
       \cup UNION {QIds(w.Source[o].q) : o \in Objects}) \ {0}

\* malloc: a cell that is neither live nor pointed to; 0 when it fails
Malloc(w) ==
    LET avail == {i \in 1..NBuf : w.heap[i].st # "live" /\ i \notin Refs(w)}
    IN  IF w.oom \/ avail = {} THEN 0
        ELSE CHOOSE i \in avail : \A j \in avail : i <= j

\* free / delete: the cell keeps its bytes until it is allocated again
DestroyXABuffer(w, id) ==
    IF id = 0 THEN w ELSE [w EXCEPT !.heap[id].st = "freed"]

\* cells nothing points to any more go back to the allocator
Collect(w) ==
    [i \in 1..NBuf |-> IF i \in Refs(w) THEN w.heap[i] ELSE FreeCell]

\* CreateXABuffer(ctx, size, strm, pos): usePos is "pos != nullptr"
CreateXABuffer(w, s, ctx, size, usePos, pos) ==
    LET Filled(s1, id, r) ==
            IF id = 0 THEN [w |-> w, s |-> s1, buf |-> 0, pos |-> pos]
            ELSE [w |-> [w EXCEPT !.heap[id] =
                            [st |-> "live", bytes |-> r.ret, off |-> s1.dec,
                             eos |-> StrmIsEOS(r.s), ctx |-> ctx]],
                  s |-> r.s, buf |-> id,
                  pos |-> IF usePos THEN pos + r.ret ELSE pos]
        Sought(s1) ==
            IF StrmIsEOS(s1) THEN [w |-> w, s |-> s1, buf |-> 0, pos |-> pos]
            ELSE Filled(s1, Malloc(w), ReadSome(s1, Min(size, Available(s1))))
    IN  Sought(IF usePos THEN StrmSeek(s, ToUInt(pos)).s ELSE s)

\* StreamXABuffer that forgets *pos += buffer->AudioBytes
StreamXABuffer_KeepsPos(w, s, id, pos) ==
    LET Refilled(s1, r) ==
            [w |-> [w EXCEPT !.heap[id].bytes = r.ret,
                             !.heap[id].off = s1.dec,
                             !.heap[id].eos = @ \/ StrmIsEOS(r.s)],
             s |-> r.s, pos |-> pos]
        Sought(s1) == Refilled(s1, ReadSome(s1, w.heap[id].bytes))
    IN  Sought(StrmSeek(s, ToUInt(pos)).s)

\* StreamXABuffer(buffer, strm, &pos): refills an existing buffer in place
StreamXABuffer(w, s, id, pos) ==
    LET Refilled(s1, r) ==
            [w |-> [w EXCEPT !.heap[id].bytes = r.ret,
                             !.heap[id].off = s1.dec,
                             !.heap[id].eos = @ \/ StrmIsEOS(r.s)],
             s |-> r.s, pos |-> pos + r.ret]
        Sought(s1) == Refilled(s1, ReadSome(s1, w.heap[id].bytes))
    IN  Sought(StrmSeek(s, ToUInt(pos)).s)

----------------------------------------------------------------------------
(* IXAudio2SourceVoice, as the engine uses it.  Calling through a null     *)
(* Source is a crash.                                                      *)

SubmitSourceBuffer(w, o, id) ==
    IF ~w.Source[o].ok THEN [w EXCEPT !.crash = TRUE]
    ELSE IF id = 0 THEN w   \* the call is rejected, nothing is queued
    ELSE [w EXCEPT !.Source[o].q =
                     Append(@, [id |-> id, eos |-> w.heap[id].eos,
                                ctx |-> w.heap[id].ctx])]

VoiceStop(w, o) ==
    IF ~w.Source[o].ok THEN [w EXCEPT !.crash = TRUE]
    ELSE [w EXCEPT !.Source[o].run = FALSE]

VoiceStart(w, o) ==
    IF ~w.Source[o].ok THEN [w EXCEPT !.crash = TRUE]
    ELSE [w EXCEPT !.Source[o].run = TRUE]

GetBuffersQueued(w, o) == Len(w.Source[o].q)

FlushSourceBuffers(w, o) ==
    IF ~w.Source[o].ok THEN [w EXCEPT !.crash = TRUE]
    ELSE [w EXCEPT !.Source[o].q = << >>]

\* Stop(); if (GetBuffersQueued(source)) FlushSourceBuffers();
StopAndFlush(w, o) ==
    LET Stopped(w1) ==
            IF GetBuffersQueued(w1, o) # 0 THEN FlushSourceBuffers(w1, o) ELSE w1
    IN  Stopped(VoiceStop(w, o))

----------------------------------------------------------------------------
(* SoundBuffer: the static asset "A".  Every function returns the new      *)
(* world and its return value.                                             *)

\* WaveFormatHash(): 0 without a buffer; both assets decode the same format
WaveFormatHash(w, a) ==
    IF a = "null" THEN 0 ELSE IF w.xaBuffer[a] = 0 THEN 0 ELSE 1

SoundBuffer_Load(w, f) ==
    IF w.xaBuffer["A"] # 0 THEN [w |-> w, ret |-> FALSE]
    ELSE LET Created(c) ==
                 [w |-> [c.w EXCEPT !.xaBuffer["A"] = c.buf], ret |-> c.buf # 0]
         IN  Created(CreateXABuffer(w, OpenStream(f), "A",
                                    OpenStream(f).StreamSize, FALSE, 0))

\* a faulty Unload that frees the buffer whatever refCount is
SoundBuffer_Unload_AnyRefCount(w) ==
    IF w.xaBuffer["A"] = 0 THEN [w |-> w, ret |-> TRUE]
    ELSE [w |-> [DestroyXABuffer(w, w.xaBuffer["A"]) EXCEPT !.xaBuffer["A"] = 0],
          ret |-> TRUE]

SoundBuffer_Unload(w) ==
    IF w.xaBuffer["A"] = 0 THEN [w |-> w, ret |-> TRUE]
    ELSE IF w.refCount["A"] > 0 THEN [w |-> w, ret |-> FALSE]
    ELSE [w |-> [DestroyXABuffer(w, w.xaBuffer["A"]) EXCEPT !.xaBuffer["A"] = 0],
          ret |-> TRUE]

SoundBuffer_BindSource(w, o) ==
    IF w.xaBuffer["A"] = 0 THEN [w |-> w, ret |-> FALSE]
    ELSE IF w.Sound[o] = "A" THEN [w |-> w, ret |-> FALSE]
    ELSE [w |-> [SubmitSourceBuffer(w, o, w.xaBuffer["A"])
                   EXCEPT !.refCount["A"] = @ + 1, !.bound = @ \cup {o}],
          ret |-> TRUE]

SoundBuffer_UnbindSource(w, o) ==
    IF w.Sound[o] = "A"
    THEN [w |-> [StopAndFlush(w, o)
                   EXCEPT !.refCount["A"] = @ - 1, !.bound = @ \ {o}],
          ret |-> TRUE]
    ELSE [w |-> w, ret |-> TRUE]

SoundBuffer_ResetBuffer(w, o) ==
    IF w.xaBuffer["A"] = 0 \/ ~w.Source[o].ok THEN [w |-> w, ret |-> FALSE]
    ELSE [w |-> SubmitSourceBuffer(StopAndFlush(w, o), o, w.xaBuffer["A"]),
          ret |-> TRUE]

----------------------------------------------------------------------------
(* SoundStream: the streamed asset "S".                                    *)

\* index of the SO_ENTRY of object o in alSources, 0 when it has none
GetSOEntry(w, o) ==
    LET I == {i \in DOMAIN w.alSources : w.alSources[i].obj = o}
    IN  IF I = {} THEN 0 ELSE CHOOSE i \in I : \A j \in I : i <= j

\* SoundStream::Size(), in sample blocks
SoundStream_Size(w) ==
    IF w.alStream.kind = "none" \/ w.alStream.SampleBlockSize = 0 THEN 0
    ELSE w.alStream.StreamSize \div w.alStream.SampleBlockSize

\* xaBuffer->wf.nAvgBytesPerSec, set when the first buffer was created
AvgBytesPerSec(w) == w.alStream.SampleBlockSize * w.alStream.SampleRate

SoundStream_Load(w, f) ==
    IF w.xaBuffer["S"] # 0 THEN [w |-> w, ret |-> FALSE]
    ELSE LET Created(c) ==
                 [w |-> [c.w EXCEPT !.xaBuffer["S"] = c.buf, !.alStream = c.s],
                  ret |-> c.buf # 0]
         IN  Created(CreateXABuffer(w, OpenStream(f), "S",
                                    BytesPerSecond(OpenStream(f)), FALSE, 0))

SoundStream_Unload(w) ==
    IF w.xaBuffer["S"] = 0 THEN [w |-> w, ret |-> TRUE]
    ELSE IF w.refCount["S"] > 0 THEN [w |-> w, ret |-> FALSE]
    ELSE [w |-> [DestroyXABuffer(w, w.xaBuffer["S"])
                   EXCEPT !.xaBuffer["S"] = 0, !.alStream = NoStream],
          ret |-> TRUE]

\* ClearStreamData, statement by statement: so.busy = TRUE
ClearStreamData_Busy(w, i) == [w EXCEPT !.alSources[i].busy = TRUE]

\* a faulty clear that flushes the queue of a voice it did not stop
ClearStreamData_Stop_StillRunning(w, i) ==
    FlushSourceBuffers(w, w.alSources[i].obj)

\* source->Stop(); if (GetBuffersQueued(source)) source->FlushSourceBuffers();
ClearStreamData_Stop(w, i) == StopAndFlush(w, w.alSources[i].obj)

\* the front buffer is deleted unless it is xaBuffer, the back buffer always
ClearStreamData_Free(w, i) ==
    LET e == w.alSources[i]
        w1 == IF e.front # 0 /\ e.front # w.xaBuffer["S"]
              THEN DestroyXABuffer(w, e.front) ELSE w
        w2 == DestroyXABuffer(w1, e.back)
    IN  [w2 EXCEPT !.alSources[i].front = 0, !.alSources[i].back = 0]

\* so.busy = FALSE
ClearStreamData_Done(w, i) == [w EXCEPT !.alSources[i].busy = FALSE]

ClearStreamData(w, i) ==
    ClearStreamData_Done(
        ClearStreamData_Free(
            ClearStreamData_Stop(ClearStreamData_Busy(w, i), i), i), i)

\* numBuffers of LoadStreamData for the position pos0 it starts from
NumBuffers(w, pos0) ==
    IF w.alStream.StreamSize - pos0 > BytesPerSecond(w.alStream) THEN 2 ELSE 1

\* LoadStreamData up to the submit of the front buffer; pos: the local pos
LoadStreamData_Front(w, i, pos0) ==
    LET o == w.alSources[i].obj
        xa == w.xaBuffer["S"]
        Front(c) ==
            [w |-> SubmitSourceBuffer([c.w EXCEPT !.alStream = c.s,
                                                  !.alSources[i].base = pos0,
                                                  !.alSources[i].front = c.buf],
                                      o, c.buf),
             pos |-> c.pos]
    IN  Front(IF pos0 = 0
              THEN IF xa = 0
                   THEN [w |-> [w EXCEPT !.crash = TRUE], s |-> w.alStream,
                         buf |-> 0, pos |-> 0]
                   ELSE [w |-> w, s |-> w.alStream, buf |-> xa,
                         pos |-> pos0 + w.heap[xa].bytes]
              ELSE CreateXABuffer(w, w.alStream, "S", BytesPerSecond(w.alStream),
                                  TRUE, pos0))

\* the rest of LoadStreamData: the back buffer, then so.next = pos
LoadStreamData_Back(w, i, two, pos) ==
    LET o == w.alSources[i].obj
        Back(c) ==
            [SubmitSourceBuffer([c.w EXCEPT !.alStream = c.s,
                                            !.alSources[i].back = c.buf],
                                o, c.buf)
               EXCEPT !.alSources[i].next = c.pos]
    IN  IF two
        THEN Back(CreateXABuffer(w, w.alStream, "S", BytesPerSecond(w.alStream),
                                 TRUE, pos))
        ELSE [w EXCEPT !.alSources[i].next = pos]

LoadStreamData(w, i, streampos) ==
    LET pos0 == IF streampos = -1 THEN w.alSources[i].next ELSE streampos
        Back(f) ==
            [w |-> LoadStreamData_Back(f.w, i, NumBuffers(w, pos0) = 2, f.pos),
             ret |-> TRUE]
    IN  Back(LoadStreamData_Front(w, i, pos0))

SoundStream_BindSource(w, o) ==
    IF w.xaBuffer["S"] = 0 THEN [w |-> w, ret |-> FALSE]
    ELSE [w |-> [LoadStreamData([w EXCEPT !.alSources = Append(@, NewEntry(o))],
                                Len(w.alSources) + 1, 0).w
                   EXCEPT !.refCount["S"] = @ + 1],
          ret |-> TRUE]

\* alSources.erase(alSources.begin() + i)
EraseEntry(srcs, i) ==
    [k \in 1..(Len(srcs) - 1) |-> IF k < i THEN srcs[k] ELSE srcs[k + 1]]

SoundStream_UnbindSource(w, o) ==
    LET i == GetSOEntry(w, o)
    IN  IF w.xaBuffer["S"] = 0 THEN [w |-> w, ret |-> FALSE]
        ELSE IF i = 0 THEN [w |-> w, ret |-> FALSE]
        ELSE [w |-> [ClearStreamData(w, i)
                       EXCEPT !.alSources = EraseEntry(@, i),
                              !.refCount["S"] = @ - 1],
              ret |-> TRUE]

SoundStream_ResetStream(w, o) ==
    LET i == GetSOEntry(w, o)
    IN  IF i = 0 THEN [w |-> w, ret |-> FALSE]
        ELSE LoadStreamData(ClearStreamData(w, i), i, 0)

\* a different bounds test, on the byte offset instead of the sample position
SeekBytePos_ByByteOffset(w, samplepos) ==
    IF samplepos * w.alStream.SampleBlockSize >= w.alStream.StreamSize THEN 0
    ELSE samplepos * w.alStream.SampleBlockSize

\* the byte position SoundStream::Seek loads from
SeekBytePos(w, samplepos) ==
    IF samplepos >= SoundStream_Size(w) THEN 0
    ELSE samplepos * w.alStream.SampleBlockSize

SoundStream_Seek(w, o, samplepos) ==
    LET i == GetSOEntry(w, o)
    IN  IF i = 0 THEN [w |-> w, ret |-> TRUE]
        ELSE [w |-> LoadStreamData(ClearStreamData(w, i), i,
                                   SeekBytePos(w, samplepos)).w,
              ret |-> TRUE]

\* a faulty end-of-file test that lets next = size through
StreamNext_IsEOF_Past(w, i) == w.alSources[i].next > w.alStream.StreamSize

\* StreamNext(SO_ENTRY&), statement by statement: the end-of-file test
StreamNext_IsEOF(w, i) == w.alSources[i].next >= w.alStream.StreamSize

\* a faulty swap that forgets to move base
StreamNext_Swap_KeepsBase(w, i) ==
    LET e == w.alSources[i]
    IN  [w EXCEPT !.alSources[i] = [e EXCEPT !.front = e.back, !.back = e.front]]

\* std::swap(e.front, e.back); e.base = e.next;
StreamNext_Swap(w, i) ==
    LET e == w.alSources[i]
    IN  [w EXCEPT !.alSources[i] =
                    [e EXCEPT !.front = e.back, !.back = e.front, !.base = e.next]]

\* a new back buffer in place of xaBuffer, or the old one refilled in place
StreamNext_Fill(w, i) ==
    LET e == w.alSources[i]
    IN  IF e.back = w.xaBuffer["S"]
        THEN LET Created(c) ==
                     [w |-> [c.w EXCEPT !.alStream = c.s,
                                        !.alSources[i].back = c.buf,
                                        !.alSources[i].next = c.pos],
                      ok |-> c.buf # 0]
             IN  Created(CreateXABuffer(w, w.alStream, "S", AvgBytesPerSec(w),
                                        TRUE, e.next))
        ELSE IF e.back = 0 THEN [w |-> w, ok |-> FALSE]
        ELSE LET Streamed(r) ==
                     [w |-> [r.w EXCEPT !.alStream = r.s,
                                        !.alSources[i].next = r.pos],
                      ok |-> TRUE]
             IN  Streamed(StreamXABuffer(w, w.alStream, e.back, e.next))

\* e.obj->Source->SubmitSourceBuffer(e.back)
StreamNext_Submit(w, i) ==
    SubmitSourceBuffer(w, w.alSources[i].obj, w.alSources[i].back)

StreamNextEntry(w, i) ==
    IF StreamNext_IsEOF(w, i) THEN [w |-> w, ret |-> FALSE]
    ELSE LET Submit(f) ==
                 IF f.ok THEN [w |-> StreamNext_Submit(f.w, i), ret |-> TRUE]
                 ELSE [w |-> f.w, ret |-> FALSE]
         IN  Submit(StreamNext_Fill(StreamNext_Swap(w, i), i))

\* StreamNext(SoundObject*): RefillCheck
SoundStream_StreamNext(w, o) ==
    LET i == GetSOEntry(w, o)
    IN  IF w.xaBuffer["S"] = 0 THEN [w |-> w, ret |-> FALSE]
        ELSE IF i = 0 THEN [w |-> w, ret |-> FALSE]
        ELSE IF w.alSources[i].busy THEN [w |-> w, ret |-> FALSE]
        ELSE StreamNextEntry(w, i)

\* IsEOS(so): the values the call can return; none when it reads e->next
\* through the null entry
SoundStream_IsEOS(w, o) ==
    LET i == GetSOEntry(w, o)
    IN  IF i # 0 THEN {TRUE}
        ELSE IF w.alStream.kind # "none" THEN {}
        ELSE {TRUE}

----------------------------------------------------------------------------
(* Virtual dispatch on the asset a SoundBuffer* points to.                 *)

BindSource(w, a, o) ==
    IF a = "S" THEN SoundStream_BindSource(w, o)
    ELSE SoundBuffer_BindSource(w, o)

UnbindSource(w, a, o) ==
    IF a = "S" THEN SoundStream_UnbindSource(w, o)
    ELSE SoundBuffer_UnbindSource(w, o)

\* SoundStream::ResetBuffer forwards to ResetStream
ResetBuffer(w, a, o) ==
    IF a = "null" THEN [w |-> [w EXCEPT !.crash = TRUE], ret |-> FALSE]
    ELSE IF a = "S" THEN SoundStream_ResetStream(w, o)
    ELSE SoundBuffer_ResetBuffer(w, o)

----------------------------------------------------------------------------
(* SoundObject and its SoundObjectState.                                   *)

\* new SoundObjectState(this)
NewState ==
    [ok |-> TRUE, isInitial |-> FALSE, isPlaying |-> FALSE,
     isLoopable |-> FALSE, isPaused |-> FALSE]

\* CreateSourceVoice: no voice comes back for a null wave format
CreateSourceVoice(w, sound) ==
    [ok |-> w.xaBuffer[sound] # 0, run |-> FALSE, q |-> << >>, end |-> FALSE]

SoundObject_SetSound(w, o, sound, loop) ==
    LET Bind(w1) ==
            IF sound = "null" THEN w1
            ELSE [BindSource(
                      IF ~w1.Source[o].ok
                      THEN [w1 EXCEPT !.State[o] = NewState,
                                      !.Source[o] = CreateSourceVoice(w1, sound)]
                      ELSE IF WaveFormatHash(w1, sound)
                                # WaveFormatHash(w1, w1.Sound[o])
                      THEN [w1 EXCEPT !.Source[o] = CreateSourceVoice(w1, sound)]
                      ELSE w1,
                      sound, o).w
                    EXCEPT !.State[o].isInitial = TRUE,
                           !.State[o].isPlaying = FALSE,
                           !.State[o].isLoopable = loop,
                           !.State[o].isPaused = FALSE,
                           !.Sound[o] = sound]
    IN  Bind(IF w.Sound[o] # "null" THEN UnbindSource(w, w.Sound[o], o).w ELSE w)

\* Rewind() that restarts the voice and leaves the buffer where it is
SoundObject_Rewind_NoReset(w, o) ==
    LET Restart(w2) == IF w2.State[o].isPlaying THEN VoiceStart(w2, o) ELSE w2
    IN  Restart([w EXCEPT !.State[o].isInitial = TRUE, !.State[o].isPaused = FALSE])

SoundObject_Rewind(w, o) ==
    LET Restart(w2) == IF w2.State[o].isPlaying THEN VoiceStart(w2, o) ELSE w2
    IN  Restart([ResetBuffer(w, w.Sound[o], o).w
                   EXCEPT !.State[o].isInitial = TRUE, !.State[o].isPaused = FALSE])

SoundObject_Play(w, o) ==
    IF ~w.State[o].ok THEN [w EXCEPT !.crash = TRUE]
    ELSE IF w.State[o].isPlaying THEN SoundObject_Rewind(w, o)
    ELSE IF w.Source[o].ok
    THEN LET w1 == [w EXCEPT !.State[o].isPlaying = TRUE,
                             !.State[o].isPaused = FALSE]
             w2 == IF GetBuffersQueued(w1, o) = 0
                   THEN ResetBuffer([w1 EXCEPT !.State[o].isInitial = TRUE],
                                    w1.Sound[o], o).w
                   ELSE w1
         IN  VoiceStart(w2, o)
    ELSE w

\* Pause() that empties the queue of the voice as Stop() does
SoundObject_Pause_Flushes(w, o) ==
    IF w.Source[o].ok
    THEN FlushSourceBuffers(
             VoiceStop([w EXCEPT !.State[o].isPlaying = FALSE,
                                 !.State[o].isPaused = TRUE], o), o)
    ELSE w

\* Pause(): Source->Stop() keeps the queue of the voice
SoundObject_Pause(w, o) ==
    IF w.Source[o].ok
    THEN VoiceStop([w EXCEPT !.State[o].isPlaying = FALSE,
                             !.State[o].isPaused = TRUE], o)
    ELSE w

\* Looping(looping)
SoundObject_Looping(w, o, looping) ==
    IF w.State[o].ok THEN [w EXCEPT !.State[o].isLoopable = looping] ELSE w

\* ~SoundObject(), after which the slot holds a newly constructed object
SoundObject_Destroy(w, o) ==
    LET w1 == IF w.Sound[o] # "null"
              THEN SoundObject_SetSound(w, o, "null", FALSE) ELSE w
    IN  [w1 EXCEPT !.Sound[o] = "null", !.Source[o] = NoVoice, !.State[o] = NoState]

\* SoundObjectState::OnBufferEnd(ctx): returns what StreamNext returned
OnBufferEnd(w, o, ctx) ==
    LET w1 == [w EXCEPT !.State[o].isInitial = FALSE]
    IN  IF ctx = "S" THEN SoundStream_StreamNext(w1, o)
        ELSE [w |-> w1, ret |-> FALSE]

\* SoundObjectState::OnStreamEnd()
OnStreamEnd(w, o) ==
    IF w.State[o].isLoopable THEN SoundObject_Rewind(w, o)
    ELSE [w EXCEPT !.State[o].isPlaying = FALSE]

\* the voice finishes the buffer at the head of its queue
ConsumeBuffer(w, o) ==
    [w EXCEPT !.Source[o].q = Tail(@),
              !.Source[o].end = @ \/ w.Source[o].q[1].eos]

----------------------------------------------------------------------------
(* The program as a state machine: one action per call of the public API   *)
(* and per callback of the voice.  Calls are atomic here; SpecConc below    *)
(* interleaves the audio thread with a foreground Seek step by step.       *)

Sounds == {"null", "A", "S"}

\* the record of a call: operation, object, asset, argument, return value
CallArg(op, o, a, arg, ret) ==
    [op |-> op, o |-> o, a |-> a, arg |-> arg, ret |-> ret]

Call(op, o, a, ret) == CallArg(op, o, a, 0, ret)

\* no streamer call since OpenStream: ret is the number the last ReadSome or
\* Seek returned, n the dstSize of the ReadSome calls so far (-1: none yet),
\* sum the bytes they returned, same whether every call since OpenStream was
\* a ReadSome with that dstSize
NoReads == [ret |-> 0, n |-> -1, sum |-> 0, same |-> TRUE]

\* the calls since OpenStream are no longer ReadSome with one dstSize
MixedReads(ret) == [ret |-> ret, n |-> -1, sum |-> 0, same |-> FALSE]

\* the state after the assets and the objects are constructed
InitFrom(files) ==
    /\ disk \in files
    /\ heap = [i \in 1..NBuf |-> FreeCell]
    /\ xaBuffer = [a \in Assets |-> 0]
    /\ refCount = [a \in Assets |-> 0]
    /\ alStream = NoStream
    /\ alSources = << >>
    /\ Sound = [o \in Objects |-> "null"]
    /\ Source = [o \in Objects |-> NoVoice]
    /\ State = [o \in Objects |-> NoState]
    /\ bound = {}
    /\ last = Call("none", 0, "null", FALSE)
    /\ fg = [pc |-> "idle", pos |-> 0, two |-> FALSE]
    /\ cb = "idle"
    /\ rd = NoReads

Init == InitFrom(Files)

\* the step or call ends without a crash and leaves the world w2
Install(w2, l) ==
    /\ ~w2.crash
    /\ \A a \in Assets : w2.refCount[a] >= -MaxNeg
    /\ \A o \in Objects : Len(w2.Source[o].q) <= MaxQueue
    /\ heap' = Collect(w2)
    /\ xaBuffer' = w2.xaBuffer
    /\ refCount' = w2.refCount
    /\ alStream' = w2.alStream
    /\ alSources' = w2.alSources
    /\ Sound' = w2.Sound
    /\ Source' = w2.Source
    /\ State' = w2.State
    /\ bound' = w2.bound
    /\ last' = l
    /\ UNCHANGED <<disk, rd>>

\* a whole call made while no other call is under way
Commit(w2, l) ==
    /\ fg.pc = "idle" /\ cb = "idle"
    /\ Install(w2, l)
    /\ UNCHANGED <<fg, cb>>

Load(a, oom) ==
    LET Done(r) == Commit(r.w, Call("Load", 0, a, r.ret))
    IN  Done(IF a = "S" THEN SoundStream_Load(World(oom), disk)
             ELSE SoundBuffer_Load(World(oom), disk))

Unload(a) ==
    LET Done(r) == Commit(r.w, Call("Unload", 0, a, r.ret))
    IN  Done(IF a = "S" THEN SoundStream_Unload(World(FALSE))
             ELSE SoundBuffer_Unload(World(FALSE)))

SetSound(o, sound, loop, oom) ==
    Commit(SoundObject_SetSound(World(oom), o, sound, loop),
           Call("SetSound", o, sound, FALSE))

\* Play() takes and returns nothing: the record keeps whether the object was
\* paused (arg 1) and whether it was playing, the case in which Play() rewinds
Play(o, oom) ==
    Commit(SoundObject_Play(World(oom), o),
           CallArg("Play", o, "null",
                   IF State[o].ok /\ State[o].isPaused THEN 1 ELSE 0,
                   State[o].ok /\ State[o].isPlaying))

Destroy(o) ==
    /\ Sound[o] # "null" \/ State[o].ok
    /\ Commit(SoundObject_Destroy(World(FALSE), o), Call("Destroy", o, "null", FALSE))

StreamNext(o, oom) ==
    LET Done(r) == Commit(r.w, Call("StreamNext", o, "S", r.ret))
    IN  Done(SoundStream_StreamNext(World(oom), o))

ResetStream(o, oom) ==
    LET Done(r) == Commit(r.w, Call("ResetStream", o, "S", r.ret))
    IN  Done(SoundStream_ResetStream(World(oom), o))

Seek(o, samplepos, oom) ==
    LET Done(r) == Commit(r.w, CallArg("Seek", o, "S", samplepos, r.ret))
    IN  Done(SoundStream_Seek(World(oom), o, samplepos))

IsEOS(o) ==
    \E v \in SoundStream_IsEOS(World(FALSE), o) :
        Commit(World(FALSE), Call("IsEOS", o, "S", v))

\* the voice finishes a buffer and calls OnBufferEnd with its context
BufferEnd(o, oom) ==
    /\ Source[o].ok /\ Source[o].run /\ Source[o].q # << >>
    /\ LET Done(r) == Commit(r.w, Call("OnBufferEnd", o, Source[o].q[1].ctx, r.ret))
       IN  Done(OnBufferEnd(ConsumeBuffer(World(oom), o), o, Source[o].q[1].ctx))

\* the buffer just finished carried XAUDIO2_END_OF_STREAM
StreamEnd(o, oom) ==
    /\ Source[o].ok /\ Source[o].end
    /\ Commit(OnStreamEnd([World(oom) EXCEPT !.Source[o].end = FALSE], o),
              Call("OnStreamEnd", o, "null", FALSE))

\* the streaming engine: one SoundObject on the SoundStream
Next ==
    \/ \E oom \in BOOLEAN : Load("S", oom)
    \/ Unload("S")
    \/ \E s \in {"null", "S"}, loop \in BOOLEAN, oom \in BOOLEAN :
          SetSound(1, s, loop, oom)
    \/ \E oom \in BOOLEAN : Play(1, oom)
    \/ Destroy(1)
    \/ \E oom \in BOOLEAN : StreamNext(1, oom)
    \/ \E oom \in BOOLEAN : ResetStream(1, oom)
    \/ \E p \in 0..MaxSample, oom \in BOOLEAN : Seek(1, p, oom)
    \/ IsEOS(1)
    \/ \E oom \in BOOLEAN : BufferEnd(1, oom)
    \/ \E oom \in BOOLEAN : StreamEnd(1, oom)

Spec == Init /\ [][Next]_vars

\* one SoundObject switching between the SoundBuffer and the SoundStream
InitMix == InitFrom(MixFiles)

NextMix ==
    \/ \E a \in Assets : Load(a, FALSE)
    \/ \E a \in Assets : Unload(a)
    \/ \E s \in Sounds, loop \in BOOLEAN : SetSound(1, s, loop, FALSE)
    \/ Play(1, FALSE)
    \/ Destroy(1)
    \/ StreamNext(1, FALSE)
    \/ BufferEnd(1, FALSE)
    \/ StreamEnd(1, FALSE)

SpecMix == InitMix /\ [][NextMix]_vars

Pause(o) ==
    Commit(SoundObject_Pause(World(FALSE), o), Call("Pause", o, "null", FALSE))

Looping(o, looping) ==
    Commit(SoundObject_Looping(World(FALSE), o, looping),
           Call("Looping", o, "null", looping))

\* the streaming engine with the playback controls Pause and Looping
NextCtl ==
    \/ Load("S", FALSE)
    \/ \E s \in {"null", "S"}, loop \in BOOLEAN : SetSound(1, s, loop, FALSE)
    \/ Play(1, FALSE)
    \/ Pause(1)
    \/ \E looping \in BOOLEAN : Looping(1, looping)
    \/ \E oom \in BOOLEAN : BufferEnd(1, oom)
    \/ StreamEnd(1, FALSE)

SpecCtl == Init /\ [][NextCtl]_vars

\* two SoundObjects on the one SoundStream, each streamer variant
TwoFiles == { File("WAV", 8, 8), File("MP3", 8, 8), File("OGG", 8, 8) }

InitTwo == InitFrom(TwoFiles)

NextTwo ==
    \/ Load("S", FALSE)
    \/ \E o \in Objects, s \in {"null", "S"} : SetSound(o, s, FALSE, FALSE)
    \/ \E o \in Objects : StreamNext(o, FALSE)
    \/ \E o \in Objects, p \in 0..MaxSample : Seek(o, p, FALSE)
    \/ \E o \in Objects : ResetStream(o, FALSE)

SpecTwo == InitTwo /\ [][NextTwo]_vars

\* the sample positions a caller may pass to Seek(SoundObject*, int): the
\* positions of the stream, the first one behind it, and negative ones
SamplePositions == (0 - MaxSample) .. MaxSample

\* the binding operations of one SoundObject, Seek with any int position
NextSeek ==
    \/ \E oom \in BOOLEAN : Load("S", oom)
    \/ \E s \in {"null", "S"}, oom \in BOOLEAN : SetSound(1, s, FALSE, oom)
    \/ \E oom \in BOOLEAN : StreamNext(1, oom)
    \/ \E oom \in BOOLEAN : ResetStream(1, oom)
    \/ \E p \in SamplePositions, oom \in BOOLEAN : Seek(1, p, oom)

SpecSeek == Init /\ [][NextSeek]_vars

\* SetSound on an object that has no sound yet, and Play() on an object that
\* is not playing: the sample gives a new object its sound, starts it once
\* and then polls IsPlaying()
Attach(o, s) == Sound[o] = "null" /\ SetSound(o, s, FALSE, FALSE)

Start(o) == ~State[o].isPlaying /\ Play(o, FALSE)

\* a non-looping SoundObject that is bound, started and left to the voice
NextPlay ==
    \/ \E a \in Assets : Load(a, FALSE)
    \/ \E s \in {"A", "S"} : Attach(1, s)
    \/ Start(1)
    \/ BufferEnd(1, FALSE)
    \/ StreamEnd(1, FALSE)

\* the world w2 and the record l differ from the state and can be installed
Moves(w2, l) ==
    /\ ~w2.crash
    /\ \A a \in Assets : w2.refCount[a] >= -MaxNeg
    /\ \A o \in Objects : Len(w2.Source[o].q) <= MaxQueue
    /\ <<Collect(w2), w2.xaBuffer, w2.refCount, w2.alStream, w2.alSources,
         w2.Sound, w2.Source, w2.State, w2.bound, l>>
          # <<heap, xaBuffer, refCount, alStream, alSources,
              Sound, Source, State, bound, last>>

\* ENABLED <<BufferEnd(o, FALSE)>>_vars, as a predicate of the state
BufferEndEnabled(o) ==
    /\ fg.pc = "idle" /\ cb = "idle"
    /\ Source[o].ok /\ Source[o].run /\ Source[o].q # << >>
    /\ LET Done(r) == Moves(r.w, Call("OnBufferEnd", o, Source[o].q[1].ctx, r.ret))
       IN  Done(OnBufferEnd(ConsumeBuffer(World(FALSE), o), o, Source[o].q[1].ctx))

\* WF_vars(BufferEnd(o, FALSE)), written out with that predicate: a running
\* voice keeps finishing the buffers queued on it
FairBufferEnd(o) ==
    []<>(~BufferEndEnabled(o)) \/ []<>(<<BufferEnd(o, FALSE)>>_vars)

\* the voice keeps consuming what is queued and delivers its callbacks
FairVoice == WF_vars(StreamEnd(1, FALSE)) /\ FairBufferEnd(1)

SpecPlay == Init /\ [][NextPlay]_vars /\ FairVoice

\* UnbindSource called by the user of the library, not through SetSound
Unbind(a, o) ==
    LET Done(r) == Commit(r.w, Call("UnbindSource", o, a, r.ret))
    IN  Done(UnbindSource(World(FALSE), a, o))

\* the same object and assets, with direct calls of UnbindSource as well
NextBind ==
    \/ NextMix
    \/ \E a \in Assets : Unbind(a, 1)

SpecBind == InitMix /\ [][NextBind]_vars

----------------------------------------------------------------------------
(* SpecStrm: one AudioStreamer of the class the file on disk selects, used *)
(* directly: OpenStream, ReadSome, Seek and CloseStream in any order.      *)

\* a call of the streamer ends leaving it as s2; the number ReadSome or Seek
\* returned is kept in rd.ret
StrmInstall(s2, l, r) ==
    /\ alStream' = s2
    /\ last' = l
    /\ rd' = r
    /\ UNCHANGED <<disk, heap, xaBuffer, refCount, alSources, Sound, Source,
                   State, bound, fg, cb>>

\* OpenStream(file): refused when the streamer is already open
DoOpenStream ==
    IF alStream.open
    THEN StrmInstall(alStream, Call("OpenStream", 0, "S", FALSE), rd)
    ELSE StrmInstall(OpenStream(disk), Call("OpenStream", 0, "S", TRUE), NoReads)

\* CloseStream(); the call records whether there was a handle to close
DoCloseStream ==
    StrmInstall(CloseStream(alStream),
                Call("CloseStream", 0, "S", alStream.open), NoReads)

\* ReadSome(dst, dstSize)
DoReadSome(dstSize) ==
    \E avail \in CountValues(alStream) :
        LET Done(r) ==
                StrmInstall(r.s, CallArg("ReadSome", 0, "S", dstSize, TRUE),
                            IF rd.same /\ rd.n \in {-1, dstSize}
                            THEN [ret |-> r.ret, n |-> dstSize,
                                  sum |-> rd.sum + r.ret, same |-> TRUE]
                            ELSE MixedReads(r.ret))
        IN  Done(ReadSomeFrom(alStream, avail, dstSize))

\* Seek(streampos); unless OpenStream has succeeded SampleBlockSize is 0 and
\* Seek divides by it
DoSeek(streampos) ==
    LET Done(r) ==
            StrmInstall(r.s, CallArg("Seek", 0, "S", streampos, TRUE),
                        MixedReads(r.ret))
    IN  /\ alStream.open /\ alStream.SampleBlockSize # 0
        /\ Done(StrmSeek(alStream, streampos))

NextStrm ==
    \/ DoOpenStream
    \/ DoCloseStream
    \/ \E dstSize \in 0..MaxRead : DoReadSome(dstSize)
    \/ \E streampos \in 0..(UIntMod - 1) : DoSeek(streampos)

SpecStrm == Init /\ [][NextStrm]_vars

\* SpecOpen: the streamer of the class of the file on disk, given paths that
\* name that file, no file, or a file it cannot use
Paths == {"valid", "missing", "invalid"}

\* OpenStream(path); the field a of the call records what the path names
DoOpenStreamOn(path) ==
    LET Done(r) ==
            StrmInstall(r.s, Call("OpenStream", 0, path, r.ret),
                        IF r.ret THEN NoReads ELSE rd)
    IN  Done(StrmOpenStream(alStream, disk, path))

NextOpen ==
    \/ \E path \in Paths : DoOpenStreamOn(path)
    \/ DoCloseStream
    \/ \E dstSize \in 0..MaxRead : DoReadSome(dstSize)

SpecOpen == Init /\ [][NextOpen]_vars

\* SpecWav: the WAV streamer on files of the size real recordings have:
\* 16-bit stereo at 44.1 kHz (block size 4), 2 seconds, 1 second and lengths
\* that are a whole number of 64 KB or 32 KB reads
WavFile(sz) ==
    [kind |-> "WAV", size |-> sz, phys |-> sz, block |-> 4, rate |-> 44100,
     skip |-> 0]

WavFiles ==
    { WavFile(352800), WavFile(176400), WavFile(327680), WavFile(98304) }

InitWav == InitFrom(WavFiles)

\* ReadSome(dst, dstSize) where the sizes are far inside the range of the
\* 32-bit int of the program
DoReadSomeWav(dstSize) ==
    LET Done(r) ==
            StrmInstall(r.s, CallArg("ReadSome", 0, "S", dstSize, TRUE),
                        IF rd.same /\ rd.n \in {-1, dstSize}
                        THEN [ret |-> r.ret, n |-> dstSize,
                              sum |-> rd.sum + r.ret, same |-> TRUE]
                        ELSE MixedReads(r.ret))
    IN  Done(ReadSome(alStream, dstSize))

NextWav ==
    \/ DoOpenStream
    \/ DoCloseStream
    \/ \E dstSize \in {65536, 32768} : DoReadSomeWav(dstSize)

SpecWav == InitWav /\ [][NextWav]_vars

----------------------------------------------------------------------------
(* SpecFmt: CreateAudioStreamer and the two passes that find the format of *)
(* a file.  A path is a sequence of characters; the start of a file is     *)
(* its first 4-byte words, at most three of them.                          *)

\* index of the last '.' of a path, 0 when it has none (strrchr)
LastDot(path) ==
    LET D == {i \in DOMAIN path : path[i] = "."}
    IN  IF D = {} THEN 0 ELSE CHOOSE i \in D : \A j \in D : j <= i

\* the four bytes *(int*)ext reads at the last '.': the characters of the
\* path, "NUL" for its terminator, "?" for a byte behind the terminator
\* (whatever it holds, no comparison below can succeed once a "NUL" is among
\* the four); << >> is the 0 returned for no extension
GetExtension(path) ==
    LET i == LastDot(path)
    IN  IF i = 0 \/ i = 1 THEN << >>
        ELSE [k \in 1..4 |->
                 IF i + k - 1 <= Len(path) THEN path[i + k - 1]
                 ELSE IF i + k - 1 = Len(path) + 1 THEN "NUL" ELSE "?"]

GetAudioFileFormatByExtension(path) ==
    LET ext == GetExtension(path)
    IN  CASE ext = << >> -> "INVALID"
          [] ext = <<".", "w", "a", "v">> -> "WAV"
          [] ext = <<".", "m", "p", "3">> -> "MP3"
          [] ext = <<".", "o", "g", "g">> -> "OGG"
          [] OTHER -> "INVALID"

\* the 4-byte words a file can start with: "ID3." is 'ID3' and any fourth
\* byte, "xxxx" any other word
Words == {"RIFF", "WAVE", "OggS", "ID3.", "xxxx"}

\* int buffer[3] after fread: the words the file has, and whatever the
\* uninitialised buffer held where the file is shorter
Buffers(f) ==
    {b \in [1..3 -> Words] : \A k \in 1..Len(f.words) : b[k] = f.words[k]}

\* the tests of GetAudioFileFormatByHeader on the buffer
HeaderFormat(b) ==
    IF b[1] = "RIFF" /\ b[3] = "WAVE" THEN "WAV"
    ELSE IF b[1] = "OggS" THEN "OGG"
    ELSE IF b[1] = "ID3." THEN "MP3"
    ELSE "INVALID"

\* the formats GetAudioFileFormatByHeader can return for file f
GetAudioFileFormatByHeader(f) ==
    IF ~f.exists THEN {"INVALID"}
    ELSE {HeaderFormat(b) : b \in Buffers(f)}

\* the streamer CreateAudioStreamer returns for a format: nullptr or a new
\* closed streamer of the class
NewStreamer(fmt) ==
    IF fmt = "INVALID" THEN NoStream ELSE [NoStream EXCEPT !.kind = fmt]

\* the characters of the generated extensions: those of wav and ogg, one
\* more lower-case letter and one upper-case letter
ExtChars == {"w", "a", "v", "o", "g", "e", "W"}

Tails == UNION {[1..k -> ExtChars] : k \in 0..MaxExt}

\* files named t.<tail>, the files t.mp3, t.mp3e, t.mp and t.MP3, the files
\* .wav and .ogg, the file t, the empty path, a file in a directory d.wav
\* and a file with two '.'
FmtPaths ==
    {<<"t", ".">> \o x : x \in Tails}
        \cup { <<"t", ".", "m", "p", "3">>, <<"t", ".", "m", "p", "3", "e">>,
                <<"t", ".", "m", "p">>, <<"t", ".", "M", "P", "3">>,
                <<".", "w", "a", "v">>, <<".", "o", "g", "g">>,
                <<"t">>, << >>, <<"d", ".", "w", "a", "v", "/", "t">>,
                <<"t", ".", "w", "a", "v", ".", "e">> }

FmtFile(path, exists, words) ==
    [path |-> path, exists |-> exists, words |-> words]

\* every path with a WAV file behind it, and behind the path t no file or
\* a file of 0 to 3 words
FmtFiles ==
    {FmtFile(path, TRUE, <<"RIFF", "xxxx", "WAVE">>) : path \in FmtPaths}
        \cup {FmtFile(<<"t">>, FALSE, << >>)}
        \cup {FmtFile(<<"t">>, TRUE, w) :
                  w \in UNION {[1..k -> Words] : k \in 0..3}}

InitFmt == InitFrom(FmtFiles)

DoByExtension ==
    StrmInstall(alStream,
                Call("GetAudioFileFormatByExtension", 0,
                     GetAudioFileFormatByExtension(disk.path), TRUE), rd)

DoByHeader ==
    \E fmt \in GetAudioFileFormatByHeader(disk) :
        StrmInstall(alStream, Call("GetAudioFileFormatByHeader", 0, fmt, TRUE),
                    rd)

\* CreateAudioStreamer(file): the header is looked at when the extension
\* gives no format
DoCreateAudioStreamer ==
    LET Done(fmt) ==
            StrmInstall(NewStreamer(fmt),
                        Call("CreateAudioStreamer", 0, fmt, fmt # "INVALID"),
                        rd)
        Pass2(fmt) ==
            IF fmt # "INVALID" THEN Done(fmt)
            ELSE \E h \in GetAudioFileFormatByHeader(disk) : Done(h)
    IN  Pass2(GetAudioFileFormatByExtension(disk.path))

NextFmt ==
    \/ DoByExtension
    \/ DoByHeader
    \/ DoCreateAudioStreamer

SpecFmt == InitFmt /\ [][NextFmt]_vars

----------------------------------------------------------------------------
(* SpecData: the WAV streamer on files that differ in where the data chunk *)
(* lies.  Offsets and sizes of this part count 4-byte words.  After the    *)
(* fmt chunk comes the data chunk, or a metadata chunk of meta words and   *)
(* then the data chunk; neither the metadata nor the samples spell "data". *)

\* sizeof(WAVHEADER): 68 bytes
HeaderWords == 17

\* offsets of NextChunk1 and NextChunk2 in WAVHEADER: 36 and 60 bytes
Chunk1Word == 9

Chunk2Word == 15

\* sizeof(RIFFCHUNK): 8 bytes
ChunkWords == 2

\* the metadata chunks of the files: none (-1), or a body of 0, 16 or 24
\* bytes
Metas == {-1, 0, 4, 6}

\* where the header of the data chunk starts in the file
DataChunkWord(meta) ==
    IF meta = -1 THEN Chunk1Word ELSE Chunk1Word + ChunkWords + meta

\* where the payload of the data chunk starts in the file
PayloadWord(meta) == DataChunkWord(meta) + ChunkWords

\* WAVHEADER::getDataChunk on the header of a file with that metadata chunk
getDataChunk(meta) ==
    IF DataChunkWord(meta) = Chunk1Word THEN "NextChunk1"
    ELSE IF DataChunkWord(meta) = Chunk2Word THEN "NextChunk2"
    ELSE "nullptr"

\* a complete WAV file with a payload of sz words
DataFile(meta, sz) ==
    [kind |-> "WAV", size |-> sz, phys |-> sz, block |-> 2, rate |-> 1,
     skip |-> HeaderWords - PayloadWord(meta), meta |-> meta]

DataFiles == {DataFile(meta, sz) : meta \in Metas, sz \in {8, 12}}

InitData == InitFrom(DataFiles)

\* OpenStream(file) of the WAV streamer on the file on disk
DoOpenData ==
    LET Done(r) ==
            StrmInstall(r.s, Call("OpenStream", 0, "S", r.ret),
                        IF r.ret THEN NoReads ELSE rd)
    IN  Done(WAVOpenStream(alStream, disk,
                           IF getDataChunk(disk.meta) = "nullptr"
                           THEN "invalid" ELSE "valid"))

NextData ==
    \/ DoOpenData
    \/ DoCloseStream
    \/ \E dstSize \in 0..MaxRead : DoReadSome(dstSize)
    \/ \E streampos \in 0..(UIntMod - 1) : DoSeek(streampos)

SpecData == InitData /\ [][NextData]_vars

----------------------------------------------------------------------------
(* SpecConc: the foreground thread inside SoundStream::Seek and the audio  *)
(* thread inside OnBufferEnd -> StreamNext, one statement group at a time. *)
(* Nothing in the code orders the two threads but the busy flag.           *)

\* the file of the concurrent runs
ConcFile == File("WAV", 8, 8)

InitConc == InitFrom({ConcFile})

\* Seek: the entry is found, bytepos computed, ClearStreamData sets busy
SeekBegin(o, samplepos) ==
    LET i == GetSOEntry(World(FALSE), o)
    IN  /\ fg.pc = "idle" /\ i # 0
        /\ Install(ClearStreamData_Busy(World(FALSE), i),
                   Call("SeekBegin", o, "S", FALSE))
        /\ fg' = [pc |-> "stop", pos |-> SeekBytePos(World(FALSE), samplepos),
                  two |-> FALSE]
        /\ UNCHANGED cb

SeekStop(o) ==
    /\ fg.pc = "stop"
    /\ Install(ClearStreamData_Stop(World(FALSE), GetSOEntry(World(FALSE), o)), Call("SeekStop", o, "S", FALSE))
    /\ fg' = [fg EXCEPT !.pc = "free"]
    /\ UNCHANGED cb

SeekFree(o) ==
    /\ fg.pc = "free"
    /\ Install(ClearStreamData_Free(World(FALSE), GetSOEntry(World(FALSE), o)), Call("SeekFree", o, "S", FALSE))
    /\ fg' = [fg EXCEPT !.pc = "done"]
    /\ UNCHANGED cb

SeekDone(o) ==
    /\ fg.pc = "done"
    /\ Install(ClearStreamData_Done(World(FALSE), GetSOEntry(World(FALSE), o)), Call("SeekDone", o, "S", FALSE))
    /\ fg' = [fg EXCEPT !.pc = "front"]
    /\ UNCHANGED cb

SeekFront(o) ==
    /\ fg.pc = "front"
    /\ LET Done(f) ==
               /\ Install(f.w, Call("SeekFront", o, "S", FALSE))
               /\ fg' = [pc |-> "back", pos |-> f.pos,
                         two |-> NumBuffers(World(FALSE), fg.pos) = 2]
       IN  Done(LoadStreamData_Front(World(FALSE), GetSOEntry(World(FALSE), o),
                                     fg.pos))
    /\ UNCHANGED cb

SeekBack(o) ==
    /\ fg.pc = "back"
    /\ Install(LoadStreamData_Back(World(FALSE), GetSOEntry(World(FALSE), o),
                                   fg.two, fg.pos), Call("SeekBack", o, "S", FALSE))
    /\ fg' = [pc |-> "idle", pos |-> 0, two |-> FALSE]
    /\ UNCHANGED cb

\* the voice finishes a buffer; OnBufferEnd reaches StreamNext(SO_ENTRY&)
\* unless StreamNext(SoundObject*) returns early
RefillBegin(o) ==
    LET w1 == [ConsumeBuffer(World(FALSE), o) EXCEPT !.State[o].isInitial = FALSE]
        i == GetSOEntry(w1, o)
        enter == /\ Source[o].q[1].ctx = "S"
                 /\ w1.xaBuffer["S"] # 0
                 /\ i # 0
                 /\ ~w1.alSources[i].busy
                 /\ ~StreamNext_IsEOF(w1, i)
    IN  /\ cb = "idle"
        /\ Source[o].ok /\ Source[o].run /\ Source[o].q # << >>
        /\ Install(w1, Call("OnBufferEnd", o, Source[o].q[1].ctx, FALSE))
        /\ cb' = IF enter THEN "swap" ELSE "idle"
        /\ UNCHANGED fg

RefillSwap(o) ==
    /\ cb = "swap"
    /\ Install(StreamNext_Swap(World(FALSE), GetSOEntry(World(FALSE), o)), Call("RefillSwap", o, "S", FALSE))
    /\ cb' = "fill"
    /\ UNCHANGED fg

RefillFill(o) ==
    /\ cb = "fill"
    /\ LET Done(f) ==
               /\ Install(f.w, Call("RefillFill", o, "S", FALSE))
               /\ cb' = IF f.ok THEN "submit" ELSE "idle"
       IN  Done(StreamNext_Fill(World(FALSE), GetSOEntry(World(FALSE), o)))
    /\ UNCHANGED fg

RefillSubmit(o) ==
    /\ cb = "submit"
    /\ Install(StreamNext_Submit(World(FALSE), GetSOEntry(World(FALSE), o)),
               Call("RefillSubmit", o, "S", TRUE))
    /\ cb' = "idle"
    /\ UNCHANGED fg

NextConc ==
    \/ Load("S", FALSE)
    \/ SetSound(1, "S", FALSE, FALSE)
    \/ Play(1, FALSE)
    \/ StreamNext(1, FALSE)
    \/ \E p \in 0..MaxSample : SeekBegin(1, p)
    \/ SeekStop(1)
    \/ SeekFree(1)
    \/ SeekDone(1)
    \/ SeekFront(1)
    \/ SeekBack(1)
    \/ RefillBegin(1)
    \/ RefillSwap(1)
    \/ RefillFill(1)
    \/ RefillSubmit(1)

SpecConc == InitConc /\ [][NextConc]_vars

----------------------------------------------------------------------------
(* Properties.  A step is recognised by the call it records in last'.      *)

\* index of the entry of object o in a list of SO_ENTRY, 0 when it has none
EntryIdx(srcs, o) ==
    LET I == {i \in DOMAIN srcs : srcs[i].obj = o}
    IN  IF I = {} THEN 0 ELSE CHOOSE i \in I : \A j \in I : i <= j

\* StreamNext(SoundObject*) on object o has nothing to do in this state
RefillRefused(o) ==
    \/ xaBuffer["S"] = 0
    \/ EntryIdx(alSources, o) = 0
    \/ alSources[EntryIdx(alSources, o)].busy
    \/ alSources[EntryIdx(alSources, o)].next >= alStream.StreamSize

\* base, next, front and back of the binding of o are as before the step
BindingUnchanged(o) ==
    LET i == EntryIdx(alSources, o)
        j == EntryIdx(alSources', o)
    IN  /\ j # 0
        /\ alSources'[j].base = alSources[i].base
        /\ alSources'[j].next = alSources[i].next
        /\ alSources'[j].front = alSources[i].front
        /\ alSources'[j].back = alSources[i].back

\* C1: a call of StreamNext, whatever the voice has consumed, leaves at most
\* two buffers of the binding queued on the voice and, when it refills,
\* does not refill a buffer that is still queued on the voice.
C1_RefillNeverOverruns ==
    [][last'.op = "StreamNext" =>
          /\ Len(Source'[last'.o].q) <= 2
          /\ last'.ret =>
                alSources'[EntryIdx(alSources', last'.o)].back
                    \notin QIds(Source[last'.o].q)]_vars

\* C2: no buffer that was freed is still queued on a voice.
C2_NoFreedBufferQueued ==
    \A o \in Objects : \A k \in DOMAIN Source[o].q :
        heap[Source[o].q[k].id].st # "freed"

\* C3: the refCount of the SoundBuffer is the number of objects bound to it
\* and not yet unbound, the refCount of the SoundStream is the number of its
\* bindings, and neither is negative.
C3_RefCountIsBindings ==
    /\ refCount["A"] = Cardinality(bound)
    /\ refCount["S"] = Len(alSources)
    /\ \A a \in Assets : refCount[a] >= 0

\* C4: Unload with refCount 0 returns true and leaves the asset without its
\* buffer (and the stream without its streamer), the buffer freed; Unload
\* with refCount > 0 returns false and changes nothing.
C4_UnloadByRefCount ==
    [][last'.op = "Unload" =>
          LET a == last'.a
          IN  /\ refCount[a] = 0 =>
                    /\ last'.ret
                    /\ xaBuffer'[a] = 0
                    /\ xaBuffer[a] # 0 => heap'[xaBuffer[a]].st # "live"
                    /\ (a = "S" /\ xaBuffer[a] # 0) => alStream' = NoStream
              /\ refCount[a] > 0 =>
                    /\ ~last'.ret
                    /\ UNCHANGED <<heap, xaBuffer, refCount, alStream, alSources,
                                   Sound, Source, State>>]_vars

\* C4 witness: an Unload was refused because an object is still bound
C4_Witness ==
    /\ last.op = "Unload" /\ ~last.ret
    /\ refCount[last.a] > 0 /\ xaBuffer[last.a] # 0

\* C5: IsEOS returns true exactly when the object has no binding or the
\* binding's next is at or past the size of the stream.
C5_IsEOSExact ==
    [][last'.op = "IsEOS" =>
          (last'.ret <=>
              \/ EntryIdx(alSources, last'.o) = 0
              \/ alSources[EntryIdx(alSources, last'.o)].next
                     >= alStream.StreamSize)]_vars

\* C6: the audio thread is never inside StreamNext while the foreground
\* thread is between the start of ClearStreamData and the end of the
\* LoadStreamData that follows it.
C6_NoInterleaving == ~(fg.pc # "idle" /\ cb # "idle")

\* the queue of o the refill found: a callback first took the finished buffer
QueueBefore(o) ==
    IF last'.op = "OnBufferEnd" THEN Tail(Source[o].q) ELSE Source[o].q

\* C7: a StreamNext that returns true makes the old back buffer the front,
\* sets base to the old next, reads at the old next into the back buffer
\* (the old front, or a new buffer in place of xaBuffer), adds the bytes read
\* to next and appends exactly that one buffer to the voice's queue.
C7_RefillEffect ==
    [][(last'.op \in {"StreamNext", "OnBufferEnd"} /\ last'.ret) =>
          LET o == last'.o
              e == alSources[EntryIdx(alSources, o)]
              n == alSources'[EntryIdx(alSources', o)]
          IN  /\ e.next < alStream.StreamSize
              /\ n.front = e.back
              /\ n.base = e.next
              /\ n.back # 0
              /\ n.back = e.front \/ (e.front = xaBuffer["S"] /\ n.back # e.back)
              /\ heap'[n.back].st = "live"
              /\ heap'[n.back].off = e.next
              /\ n.next = e.next + heap'[n.back].bytes
              /\ Len(Source'[o].q) = Len(QueueBefore(o)) + 1
              /\ SubSeq(Source'[o].q, 1, Len(QueueBefore(o))) = QueueBefore(o)
              /\ Source'[o].q[Len(Source'[o].q)].id = n.back]_vars

\* C7 witness: a refill in place has returned true after reading data
C7_Witness ==
    /\ last.op = "StreamNext" /\ last.ret
    /\ LET e == alSources[EntryIdx(alSources, last.o)]
       IN  /\ e.base > 0 /\ e.next > e.base
           /\ e.back # 0 /\ e.front # 0
           /\ heap[e.back].off = e.base /\ heap[e.back].bytes = e.next - e.base

\* C8: a StreamNext that had something to do and returns false leaves base,
\* next, front and back of the binding as they were.
C8_FailedRefillKeepsBinding ==
    [][(last'.op = "StreamNext" /\ ~last'.ret /\ ~RefillRefused(last'.o)) =>
          BindingUnchanged(last'.o)]_vars

\* C9: StreamNext with next at or past the size, with a busy binding, with
\* no binding or with no loaded stream returns false, leaves the bindings and
\* the streamer alone and submits nothing.
C9_RefusedRefillIsNoOp ==
    [][(last'.op \in {"StreamNext", "OnBufferEnd"} /\ last'.a = "S"
            /\ RefillRefused(last'.o)) =>
          /\ ~last'.ret
          /\ cb' = "idle"
          /\ alSources' = alSources
          /\ alStream' = alStream
          /\ xaBuffer' = xaBuffer
          /\ Source'[last'.o].q = QueueBefore(last'.o)]_vars

\* C9 witness: the callback found the binding busy and returned
C9_Witness ==
    /\ last.op = "OnBufferEnd" /\ last.a = "S" /\ cb = "idle"
    /\ EntryIdx(alSources, last.o) # 0
    /\ alSources[EntryIdx(alSources, last.o)].busy
    /\ alSources[EntryIdx(alSources, last.o)].next < alStream.StreamSize

\* C10: SetSound of the loaded stream on an object without a binding binds
\* it: base is 0; one buffer is queued when the stream is no longer than one
\* second, two otherwise; the queue starts with xaBuffer read at 0 and goes
\* on in stream order; next is the offset after the queued data (the size of
\* the stream in the one-buffer case); refCount is one more.
C10_BindLoadsInitialBuffers ==
    [][(last'.op = "SetSound" /\ last'.a = "S" /\ xaBuffer["S"] # 0
            /\ EntryIdx(alSources, last'.o) = 0) =>
          LET o == last'.o
              j == EntryIdx(alSources', o)
              q == Source'[o].q
              num == IF alStream.StreamSize <= BytesPerSecond(alStream)
                     THEN 1 ELSE 2
          IN  /\ j # 0
              /\ alSources'[j].base = 0
              /\ Len(q) = num
              /\ q[1].id = xaBuffer["S"] /\ heap'[q[1].id].off = 0
              /\ num = 2 => heap'[q[2].id].off = heap'[q[1].id].bytes
              /\ alSources'[j].next =
                    heap'[q[num].id].off + heap'[q[num].id].bytes
              /\ num = 1 => alSources'[j].next = alStream.StreamSize
              /\ refCount'["S"] = refCount["S"] + 1]_vars

\* the bytes of the buffers queued on the voice of o, after the step
QueuedBytes(o) ==
    LET q == Source'[o].q
        Sum[k \in 0..Len(q)] ==
            IF k = 0 THEN 0 ELSE Sum[k - 1] + heap'[q[k].id].bytes
    IN  Sum[Len(q)]

BindingView(srcs, src, hp, o) ==
    [base |-> srcs[EntryIdx(srcs, o)].base,
     next |-> srcs[EntryIdx(srcs, o)].next,
     queue |-> [k \in DOMAIN src[o].q |->
                  [off |-> hp[src[o].q[k].id].off,
                   bytes |-> hp[src[o].q[k].id].bytes]],
     run |-> src[o].run]

\* the view of the binding of o in the world a call returned
ViewAfter(w, o) == BindingView(w.alSources, w.Source, w.heap, o)

\* the world a call returned, as the next call finds it
Returned(w) == [w EXCEPT !.heap = Collect(w)]

\* the binding after the initial load of a stream: base 0, one buffer when
\* the stream is no longer than a second and two otherwise, read in stream
\* order from offset 0, next right after them
IsInitialLoad(v, strm) ==
    LET num == IF strm.StreamSize <= BytesPerSecond(strm) THEN 1 ELSE 2
    IN  /\ v.base = 0
        /\ Len(v.queue) = num
        /\ v.queue[1].off = 0
        /\ num = 2 => v.queue[2].off = v.queue[1].bytes
        /\ v.next = v.queue[num].off + v.queue[num].bytes

\* C13: ResetStream on a bound object leaves the voice stopped and the
\* binding as the initial load of BindSource leaves it; Seek to sample 0
\* from the same state gives the same binding, and so does a second
\* ResetStream right after the first.
C13_ResetIsInitialLoad ==
    [][(last'.op = "ResetStream" /\ EntryIdx(alSources, last'.o) # 0) =>
          LET o == last'.o
              Reset(w) == Returned(SoundStream_ResetStream(w, o).w)
          IN  /\ ~Source'[o].run
              /\ IsInitialLoad(BindingView(alSources', Source', heap', o), alStream)
              /\ \A oom \in BOOLEAN :
                    /\ ViewAfter(Reset(World(oom)), o)
                         = ViewAfter(Returned(SoundStream_Seek(World(oom), o, 0).w), o)
                    /\ ViewAfter(Reset(Reset(World(oom))), o)
                         = ViewAfter(Reset(World(oom)), o)]_vars

\* object o holds no binding of asset a
NotBound(a, o) ==
    IF a = "S" THEN EntryIdx(alSources, o) = 0 ELSE o \notin bound

\* C14: UnbindSource for an object that is not bound to the asset returns
\* false and leaves refCount and the bindings as they were.
C14_UnbindUnboundFails ==
    [][(last'.op = "UnbindSource" /\ NotBound(last'.a, last'.o)) =>
          /\ ~last'.ret
          /\ refCount' = refCount
          /\ alSources' = alSources
          /\ bound' = bound]_vars

\* C15: a Load of an empty asset that returns false leaves the asset empty:
\* no buffer, and for the stream no streamer kept.
C15_FailedLoadLeavesEmpty ==
    [][(last'.op = "Load" /\ ~last'.ret /\ xaBuffer[last'.a] = 0) =>
          /\ xaBuffer'[last'.a] = 0
          /\ last'.a = "S" => alStream' = NoStream]_vars

\* C16: ReadSome(dst, n) on an open streamer with StreamSize - StreamPos > 0
\* returns r <= min(n, available), a multiple of the block size, StreamPos
\* advances by exactly r, and r is the number of bytes the file or decoder
\* produced.
C16_ReadSomeCountsProduced ==
    [][(last'.op = "ReadSome" /\ alStream.open /\ Available(alStream) > 0) =>
          /\ rd'.ret <= Min(last'.arg, Available(alStream))
          /\ rd'.ret % alStream.SampleBlockSize = 0
          /\ alStream'.StreamPos = alStream.StreamPos + rd'.ret
          /\ rd'.ret = alStream'.dec - alStream.dec]_vars

\* C17: after any sequence of OpenStream, ReadSome, Seek and CloseStream the
\* streamer has 0 <= StreamPos <= StreamSize.
C17_StreamPosInRange ==
    0 <= alStream.StreamPos /\ alStream.StreamPos <= alStream.StreamSize

\* C18: Seek(p) on an open stream returns 0 when p >= StreamSize, and
\* otherwise a multiple of the block size that is at most p.
C18_SeekReturnsAligned ==
    [][(last'.op = "Seek" /\ alStream.open) =>
          IF last'.arg >= alStream.StreamSize
          THEN rd'.ret = 0
          ELSE /\ rd'.ret % alStream.SampleBlockSize = 0
               /\ rd'.ret <= last'.arg]_vars

\* C19: after Seek(p) on an open stream StreamPos equals the value Seek
\* returned (the int StreamPos compared with the unsigned int returned, as
\* C compares them).
C19_SeekSetsStreamPos ==
    [][(last'.op = "Seek" /\ alStream.open) =>
          ToUInt(alStream'.StreamPos) = rd'.ret]_vars

\* C20: when the calls since OpenStream were all ReadSome with one dstSize
\* n >= 1 and the last of them returned 0, the byte counts returned sum to
\* StreamSize.
C20_ReadsSumToStreamSize ==
    (last.op = "ReadSome" /\ rd.same /\ rd.n >= 1 /\ rd.ret = 0) =>
        rd.sum = alStream.StreamSize

\* the calls since OpenStream on the WAV of sz bytes were all ReadSome(dst, n)
ReadsOf(sz, n) ==
    /\ disk.size = sz /\ alStream.open
    /\ last.op = "ReadSome" /\ rd.same /\ rd.n = n

\* C21 as stated: on the WAV of 352,800 bytes with block size 4, repeated
\* ReadSome(dst, 65536) after OpenStream returns 65536 five times, then
\* 17,920, then 0.
C21_ReadsOfTwoSeconds ==
    ReadsOf(352800, 65536) =>
        \/ rd.ret = 65536 /\ rd.sum \in {65536 * k : k \in 1..5}
        \/ rd.ret = 17920 /\ rd.sum = 5 * 65536 + 17920
        \/ rd.ret = 0 /\ rd.sum = 5 * 65536 + 17920

\* C21 amended: the reads return 65536 five times, then the 25,120 bytes
\* that are left of 352,800, then 0.
C21_ReadsOfTwoSecondsLeft ==
    ReadsOf(352800, 65536) =>
        \/ rd.ret = 65536 /\ rd.sum \in {65536 * k : k \in 1..5}
        \/ rd.ret = 25120 /\ rd.sum = 352800
        \/ rd.ret = 0 /\ rd.sum = 352800

\* the read after the partial one has returned 0
C21_Witness ==
    ReadsOf(352800, 65536) /\ rd.ret = 0 /\ rd.sum = 352800

\* C22: a ReadSome called with StreamPos = StreamSize returns 0 and leaves
\* the streamer, StreamPos and the decoder position included, as it was:
\* nothing is produced into the destination buffer.
C22_ReadAtEndReturnsZero ==
    [][(last'.op = "ReadSome" /\ alStream.StreamPos = alStream.StreamSize) =>
          rd'.ret = 0 /\ alStream' = alStream]_vars

\* the reads since OpenStream have returned the whole stream and the last of
\* them, made at the end of the stream, has returned 0
C22_Witness ==
    /\ last.op = "ReadSome" /\ alStream.open /\ alStream.StreamSize > 0
    /\ alStream.StreamPos = alStream.StreamSize
    /\ rd.same /\ rd.ret = 0 /\ rd.sum = alStream.StreamSize

\* C23: an OpenStream on a streamer that is not open leaves it open exactly
\* when it returns true, and it returns true when the path names a valid
\* file.
C23_OpenIffSucceeded ==
    [][(last'.op = "OpenStream" /\ ~alStream.open) =>
          /\ alStream'.open = last'.ret
          /\ last'.a = "valid" => last'.ret]_vars

\* C24: OpenStream on a streamer that is open returns false and leaves the
\* streamer as it was; right after CloseStream an OpenStream of a valid file
\* returns true.
C24_ReopenRefused ==
    [][/\ (last'.op = "OpenStream" /\ alStream.open) =>
             ~last'.ret /\ alStream' = alStream
       /\ (last'.op = "OpenStream" /\ last'.a = "valid"
             /\ last.op = "CloseStream") => last'.ret]_vars

\* OpenStream of a valid file has been refused on a stream read part of the
\* way
C24_Witness ==
    /\ last.op = "OpenStream" /\ last.a = "valid" /\ ~last.ret
    /\ alStream.open /\ alStream.StreamPos > 0

\* C25: after CloseStream the streamer has no handle and StreamSize,
\* StreamPos, the sample rate and the block size are 0; a CloseStream on a
\* closed streamer leaves it as it is.
C25_CloseIsIdempotent ==
    [][last'.op = "CloseStream" =>
          /\ ~alStream'.open
          /\ alStream'.StreamSize = 0 /\ alStream'.StreamPos = 0
          /\ alStream'.SampleRate = 0 /\ alStream'.SampleBlockSize = 0
          /\ ~alStream.open => alStream' = alStream]_vars

\* a CloseStream has been called on a streamer that was closed already
C25_Witness ==
    last.op = "CloseStream" /\ ~last.ret /\ alStream = NoStream

\* the text after the last '.' of a path, << >> when the path has no '.'
AfterLastDot(path) ==
    IF LastDot(path) = 0 THEN << >>
    ELSE SubSeq(path, LastDot(path) + 1, Len(path))

\* C26: the extension pass gives WAV, MP3 or OGG only when the text after
\* the last '.' is exactly wav, mp3 or ogg, and no format for every other
\* path.
C26_ExtensionIsThreeChars ==
    last.op = "GetAudioFileFormatByExtension" =>
        last.a = CASE AfterLastDot(disk.path) = <<"w", "a", "v">> -> "WAV"
                   [] AfterLastDot(disk.path) = <<"m", "p", "3">> -> "MP3"
                   [] AfterLastDot(disk.path) = <<"o", "g", "g">> -> "OGG"
                   [] OTHER -> "INVALID"

\* the k-th 4-byte word of the file on disk, "none" where the file ends
\* before it
FileWord(k) == IF k <= Len(disk.words) THEN disk.words[k] ELSE "none"

\* the format the first 12 bytes of the file on disk stand for
FormatOfHeader ==
    IF ~disk.exists THEN "INVALID"
    ELSE IF FileWord(1) = "RIFF" /\ FileWord(3) = "WAVE" THEN "WAV"
    ELSE IF FileWord(1) = "OggS" THEN "OGG"
    ELSE IF FileWord(1) = "ID3." THEN "MP3"
    ELSE "INVALID"

\* C27: the header pass gives the format the first 12 bytes of the file
\* stand for, and no format for any other or an unreadable file; for a path
\* the extension pass gives no format for, CreateAudioStreamer creates the
\* streamer of that format, and none when there is no format.
C27_HeaderDecides ==
    /\ last.op = "GetAudioFileFormatByHeader" => last.a = FormatOfHeader
    /\ (last.op = "CreateAudioStreamer"
          /\ GetAudioFileFormatByExtension(disk.path) = "INVALID") =>
            /\ last.a = FormatOfHeader
            /\ alStream = NewStreamer(FormatOfHeader)

\* C28: Play() on an object that is playing and bound to the stream resets
\* the stream to offset 0 for it (the binding of the object has base 0,
\* isInitial is true) and leaves the object playing.
C28_PlayWhilePlayingRewinds ==
    [][(last'.op = "Play" /\ State[last'.o].ok /\ State[last'.o].isPlaying
          /\ EntryIdx(alSources, last'.o) # 0) =>
          /\ State'[last'.o].isPlaying /\ State'[last'.o].isInitial
          /\ EntryIdx(alSources', last'.o) # 0
          /\ alSources'[EntryIdx(alSources', last'.o)].base = 0]_vars

\* Play() was called on a playing object bound to the stream and has
\* restarted it on freshly loaded data
C28_Witness ==
    /\ last.op = "Play" /\ last.ret
    /\ State[1].isPlaying /\ State[1].isInitial /\ Source[1].run
    /\ EntryIdx(alSources, 1) # 0 /\ alSources[EntryIdx(alSources, 1)].base = 0
    /\ alStream.StreamPos > 0


\* C29: Pause() leaves the stream, its bindings (base, next, front and back
\* buffer), the buffers and the queue of the voice as they are, and the
\* Play() that follows it sets the object playing again with the stream, the
\* bindings and the queue of the voice still as they were.
C29_PauseKeepsAndPlayResumes ==
    [][/\ last'.op = "Pause" =>
             /\ alSources' = alSources /\ heap' = heap /\ alStream' = alStream
             /\ Source'[last'.o].q = Source[last'.o].q
             /\ ~State'[last'.o].isPlaying
       /\ (last'.op = "Play" /\ last'.arg = 1) =>
             /\ State'[last'.o].isPlaying /\ Source'[last'.o].run
             /\ alSources' = alSources /\ alStream' = alStream
             /\ Source'[last'.o].q = Source[last'.o].q]_vars

\* C29 for a voice that has buffers queued: Pause() leaves the stream, its
\* bindings, the buffers and the queue of the voice as they are, and when
\* buffers are queued on the voice the Play() that follows sets the object
\* playing again with the stream, the bindings and the queue as they were.
C29_PauseKeepsAndPlayResumesQueued ==
    [][/\ last'.op = "Pause" =>
             /\ alSources' = alSources /\ heap' = heap /\ alStream' = alStream
             /\ Source'[last'.o].q = Source[last'.o].q
             /\ ~State'[last'.o].isPlaying
       /\ (last'.op = "Play" /\ last'.arg = 1
             /\ Source[last'.o].q # << >>) =>
             /\ State'[last'.o].isPlaying /\ Source'[last'.o].run
             /\ alSources' = alSources /\ alStream' = alStream
             /\ Source'[last'.o].q = Source[last'.o].q]_vars

\* a paused object has been set playing again in the middle of the stream
C29_Witness ==
    /\ last.op = "Play" /\ last.arg = 1
    /\ State[1].isPlaying /\ Source[1].run /\ Source[1].q # << >>
    /\ EntryIdx(alSources, 1) # 0 /\ alSources[EntryIdx(alSources, 1)].base > 0

\* C30: when the end of the stream is reached for an object on the stream
\* (OnStreamEnd), the object is not playing afterwards and the stream, its
\* bindings and the queue of the voice are left as they are: nothing is
\* rewound, whatever loop flag SetSound or Looping has stored.
C30_StreamNeverLoops ==
    [][(last'.op = "OnStreamEnd" /\ Sound[last'.o] = "S") =>
          /\ ~State'[last'.o].isPlaying
          /\ alSources' = alSources /\ alStream' = alStream
          /\ Source'[last'.o].q = Source[last'.o].q]_vars

\* the buffers q, as the heap hp holds them, are stream ranges that follow one
\* another from offset from and end at offset to
Chain(q, hp, from, to) ==
    LET End[k \in 0..Len(q)] ==
            IF k = 0 THEN from ELSE End[k - 1] + hp[q[k].id].bytes
    IN  /\ \A k \in DOMAIN q : hp[q[k].id].off = End[k - 1]
        /\ End[Len(q)] = to

\* the calls that load a binding anew: bind, seek, reset and rewind
Reloads == {"SetSound", "Seek", "ResetStream", "Play", "OnStreamEnd"}

\* the calls that refill a binding
Refills == {"StreamNext", "OnBufferEnd"}

\* C31: for an object bound to the stream, the buffers a bind, seek, reset or
\* rewind leaves queued are the stream ranges from base up to next in order
\* (a Play that has nothing to rewind leaves next and the queue alone); the
\* buffer a successful refill submits is the range from the old next to the
\* new next, queued behind what was queued; and next changes in no other
\* step.
C31_SubmittedRangesContiguous ==
    [][\A o \in Objects :
          (EntryIdx(alSources', o) # 0 /\ last'.op # "none") =>
             LET n == alSources'[EntryIdx(alSources', o)]
                 i == EntryIdx(alSources, o)
                 q == Source'[o].q
                 kept == Len(QueueBefore(o))
             IN  IF i = 0 THEN Chain(q, heap', n.base, n.next)
                 ELSE IF last'.op \in Reloads /\ last'.o = o
                 THEN \/ Chain(q, heap', n.base, n.next)
                      \/ n.next = alSources[i].next /\ q = Source[o].q
                 ELSE IF last'.op \in Refills /\ last'.o = o /\ last'.ret
                 THEN /\ Len(q) > kept
                      /\ SubSeq(q, 1, kept) = QueueBefore(o)
                      /\ Chain(SubSeq(q, kept + 1, Len(q)), heap',
                               alSources[i].next, n.next)
                 ELSE n.next = alSources[i].next]_vars

\* the callback's refill has queued the range up to next behind the range
\* the voice had left from the load
C31_Witness ==
    /\ last.op = "OnBufferEnd" /\ last.ret
    /\ EntryIdx(alSources, 1) # 0
    /\ Len(Source[1].q) = 2
    /\ heap[Source[1].q[1].id].bytes > 0 /\ heap[Source[1].q[2].id].bytes > 0
    /\ heap[Source[1].q[1].id].off > 0
    /\ Chain(Source[1].q, heap, heap[Source[1].q[1].id].off,
             alSources[EntryIdx(alSources, 1)].next)

\* C32: in every state the base of a binding is the stream offset at which
\* its front buffer, the buffer the voice is consuming, was read.
C32_BaseIsFrontStart ==
    \A i \in DOMAIN alSources :
        alSources[i].front # 0 => heap[alSources[i].front].off = alSources[i].base

\* C33: while the stream is loaded its first buffer is allocated and holds
\* the bytes read at offset 0: no call on a binding frees it or refills it.
C33_FirstBufferResident ==
    xaBuffer["S"] # 0 =>
        /\ heap[xaBuffer["S"]].st = "live"
        /\ heap[xaBuffer["S"]].off = 0
        /\ heap[xaBuffer["S"]].ctx = "S"

\* the calls made on the binding of one object
BindingCalls == {"SetSound", "StreamNext", "Seek", "ResetStream"}

\* C34: with two objects bound to the stream, a refill, seek, reset or unbind
\* on one of them leaves base, next, front and back of the other as they
\* were; and a refill of an object that has its front and back buffer and
\* whose next is short of the size of the stream, with memory left for a
\* buffer, returns true with data read at that next, wherever the calls on
\* the other object left the streamer.
C34_IndependentCursors ==
    [][/\ \A b \in Objects :
            (last'.op \in BindingCalls /\ last'.o # b
                /\ EntryIdx(alSources, b) # 0) => BindingUnchanged(b)
       /\ (last'.op = "StreamNext" /\ ~RefillRefused(last'.o)
             /\ Len(alSources) = 2 /\ Malloc(World(FALSE)) # 0
             /\ alSources[EntryIdx(alSources, last'.o)].front # 0
             /\ alSources[EntryIdx(alSources, last'.o)].back # 0) =>
            LET n == alSources'[EntryIdx(alSources', last'.o)]
                e == alSources[EntryIdx(alSources, last'.o)]
            IN  /\ last'.ret
                /\ n.back # 0
                /\ heap'[n.back].off = e.next
                /\ heap'[n.back].bytes > 0]_vars

\* C35: OpenStream of the WAV streamer on a closed streamer finds the data
\* chunk, after the fmt chunk or after a metadata chunk of any size, and
\* takes its size as StreamSize; and whenever the stream is open with
\* StreamPos inside it, the file pointer stands at the payload byte of
\* offset StreamPos, which is the byte ReadSome delivers next.
C35_StreamIsDataPayload ==
    [][/\ (last'.op = "OpenStream" /\ ~alStream.open) =>
             /\ last'.ret
             /\ alStream'.StreamSize = disk.size
       /\ (alStream'.open /\ alStream'.StreamPos >= 0
             /\ alStream'.StreamPos < alStream'.StreamSize) =>
             alStream'.dec = alStream'.StreamPos]_vars

\* C36: in every reachable state, whatever BindSource, RefillCheck, Seek
\* (negative and out-of-range sample positions included) and ResetStream
\* calls came before, every binding has 0 <= base <= next <= stream size,
\* and base and next are whole multiples of the sample block size.
C36_CursorsInRange ==
    \A i \in DOMAIN alSources :
        /\ 0 <= alSources[i].base
        /\ alSources[i].base <= alSources[i].next
        /\ alSources[i].next <= alStream.StreamSize
        /\ alStream.SampleBlockSize # 0 =>
              /\ alSources[i].base % alStream.SampleBlockSize = 0
              /\ alSources[i].next % alStream.SampleBlockSize = 0

\* C37: a stream bound to a playing object whose voice calls RefillCheck for
\* every buffer it finishes, with no Seek or Reset, reaches next >= stream
\* size after finitely many refills, whatever the size; and a RefillCheck
\* made with next >= size returns false, submits nothing and leaves next.
C37_RefillsTerminate ==
    /\ [](  (EntryIdx(alSources, 1) # 0 /\ State[1].isPlaying)
          => <>(\/ EntryIdx(alSources, 1) = 0
                \/ alSources[EntryIdx(alSources, 1)].next >= alStream.StreamSize))
    /\ [][(/\ last'.op = "OnBufferEnd" /\ last'.a = "S"
           /\ EntryIdx(alSources, 1) # 0
           /\ alSources[EntryIdx(alSources, 1)].next >= alStream.StreamSize)
          => /\ ~last'.ret
             /\ Source'[1].q = Tail(Source[1].q)
             /\ alSources'[EntryIdx(alSources', 1)].next
                  = alSources[EntryIdx(alSources, 1)].next]_vars

\* C38: a non-looping SoundObject that was started with Play and is left to
\* the voice, which keeps consuming and delivers its callbacks, eventually
\* reports IsPlaying() = false.
C38_PlaybackEnds == [](State[1].isPlaying => <>(~State[1].isPlaying))

=============================================================================
